---------------------------- MODULE Spec2Model ----------------------------
(***************************************************************************)
(* A model of LSSViewTransformerUQ (mmdet3d/models/necks/                  *)
(* view_transformer_uq.py): the grid and frustum builder, the unprojector  *)
(* get_lidar_coor, the pooling planner voxel_pooling_prepare_v2, the       *)
(* pooling executor voxel_pooling_v2 / view_transform_core and the         *)
(* acceleration cache (initial_flag and the five stored rank arrays).      *)
(*                                                                         *)
(* Numbers.  World coordinates, grid bounds and grid intervals are         *)
(* integers, so (p - lower) / interval and (upper - lower) / interval are  *)
(* rationals with the interval as denominator.  A float the code computes  *)
(* is kept exactly as a numerator over a known denominator (all values of  *)
(* the model are far inside float32's exact range).  Tensors are kept as   *)
(* a shape and the row-major sequence of their elements; the values the    *)
(* code stores in rank arrays are 0-based, as in the code.                 *)
(***************************************************************************)
EXTENDS Integers, Sequences, FiniteSets, TLC

\* Bound of the model: the number of view_transform calls on one instance.
MaxCalls == 2

\* The (None, None, None, None, None) voxel_pooling_prepare_v2 returns for an
\* empty plan, as a plan record whose "none" field is set.
None ==
    [none |-> TRUE, ranks_bev |-> <<>>, ranks_depth |-> <<>>, ranks_feat |-> <<>>,
     interval_starts |-> <<>>, interval_lengths |-> <<>>]

\* An instance attribute: never assigned, or assigned the array s.
Unset == [set |-> FALSE, val |-> <<>>]
Stored(s) == [set |-> TRUE, val |-> s]

\* No tensor (a local that was not computed).
NoTensor == [shape |-> <<>>, flat |-> <<>>, oob |-> FALSE]

----------------------------------------------------------------------------
(* Arithmetic helpers *)

\* s[k] + ... + s[Len(s)]
RECURSIVE SumFrom(_, _)
SumFrom(s, k) == IF k > Len(s) THEN 0 ELSE s[k] + SumFrom(s, k + 1)

RECURSIVE Prod(_)
Prod(s) == IF s = <<>> THEN 1 ELSE Head(s) * Prod(Tail(s))

RECURSIVE Concat(_)
Concat(ss) == IF ss = <<>> THEN <<>> ELSE Head(ss) \o Concat(Tail(ss))

\* The sequence s with every element evaluated (TLC keeps [k \in 1..n |-> e]
\* unevaluated and would compute e again at every use of an element).
Force(s) == s \o <<>>

\* F(v), with v evaluated once: x is bound to the value of v (TLC evaluates an
\* operator argument or a LET definition again at each of its uses).
Bind(v, F(_)) == CHOOSE r \in {F(x) : x \in {v}} : TRUE

SumSeq(s) == Bind(s, LAMBDA x : SumFrom(x, 1))

Max(a, b) == IF a >= b THEN a ELSE b

\* tensor.long() / int() of the quotient a / b (b > 0): rounds toward zero.
TruncDiv(a, b) == IF a >= 0 THEN a \div b ELSE -((-a) \div b)

\* The number of elements of torch.arange(lo, hi, step), step > 0.
ArangeLen(lo, hi, step) == IF hi <= lo THEN 0 ELSE ((hi - lo) + step - 1) \div step

\* torch.arange(lo, hi, step)
Arange(lo, hi, step) ==
    Force([k \in 1..ArangeLen(lo, hi, step) |-> lo + (k - 1) * step])

\* torch.linspace(start, end, steps); the configurations of the model make
\* every element an integer.
Linspace(start, end, steps) ==
    Force([k \in 1..steps |-> IF steps = 1 THEN start
                              ELSE start + ((k - 1) * (end - start)) \div (steps - 1)])

----------------------------------------------------------------------------
(* 3x3 matrices and 3-vectors *)

Dot(r, v) == r[1] * v[1] + r[2] * v[2] + r[3] * v[3]

MatVec(M, v) == <<Dot(M[1], v), Dot(M[2], v), Dot(M[3], v)>>

Col(M, j) == <<M[1][j], M[2][j], M[3][j]>>

MatMul(A, M) ==
    <<<<Dot(A[1], Col(M, 1)), Dot(A[1], Col(M, 2)), Dot(A[1], Col(M, 3))>>,
      <<Dot(A[2], Col(M, 1)), Dot(A[2], Col(M, 2)), Dot(A[2], Col(M, 3))>>,
      <<Dot(A[3], Col(M, 1)), Dot(A[3], Col(M, 2)), Dot(A[3], Col(M, 3))>>>>

VecAdd(u, v) == <<u[1] + v[1], u[2] + v[2], u[3] + v[3]>>
VecSub(u, v) == <<u[1] - v[1], u[2] - v[2], u[3] - v[3]>>

Det(M) ==
      M[1][1] * (M[2][2] * M[3][3] - M[2][3] * M[3][2])
    - M[1][2] * (M[2][1] * M[3][3] - M[2][3] * M[3][1])
    + M[1][3] * (M[2][1] * M[3][2] - M[2][2] * M[3][1])

\* The cyclic successor of an index of 1..3.
Nx(i) == (i % 3) + 1

\* The (i, j) entry of the adjugate of M.
Adj(M, i, j) ==
    M[Nx(j)][Nx(i)] * M[Nx(Nx(j))][Nx(Nx(i))] - M[Nx(j)][Nx(Nx(i))] * M[Nx(Nx(j))][Nx(i)]

\* torch.inverse(M) = adj(M) / det(M).  The matrices of the model have
\* determinant 1 or -1, so the quotient is exact.
Inverse(M) ==
    LET d == Det(M)
        e(i, j) == TruncDiv(Adj(M, i, j) * d, d * d)
    IN  <<<<e(1, 1), e(1, 2), e(1, 3)>>,
          <<e(2, 1), e(2, 2), e(2, 3)>>,
          <<e(3, 1), e(3, 2), e(3, 3)>>>>

I3 == <<<<1, 0, 0>>, <<0, 1, 0>>, <<0, 0, 1>>>>
FlipX == <<<<-1, 0, 0>>, <<0, 1, 0>>, <<0, 0, 1>>>>
RotZ == <<<<0, -1, 0>>, <<1, 0, 0>>, <<0, 0, 1>>>>
\* A pinhole intrinsic matrix with unit focal length and principal point (cx, 0).
Intrin(cx) == <<<<1, 0, cx>>, <<0, 1, 0>>, <<0, 0, 1>>>>
\* A 4x4 sensor-to-ego matrix from a rotation and a translation.
Sensor2Ego(R, t) ==
    <<R[1] \o <<t[1]>>, R[2] \o <<t[2]>>, R[3] \o <<t[3]>>, <<0, 0, 0, 1>>>>


----------------------------------------------------------------------------
(* Construction: __init__, create_grid_infos, create_frustum *)

\* The constructor arguments the model fixes.  The frustum then has D = 2
\* depth bins (depths 1 and 2) and a 1 x 2 feature map (pixel columns 0, 1).
depth_cfg == <<1, 3, 1>>
input_size == <<1, 2>>
downsample == 1
out_channels == 2
in_channels == 1

\* The (x, y, z) grid configurations an instance may be built with, each axis
\* as (lower_bound, upper_bound, interval):
\*   GridXYZ    2 x 1 x 2 voxels (X and Y differ, Z > 1)
\*   GridFlat   2 x 2 x 1 voxels (Z = 1)
\*   GridOdd    (upper - lower) / interval = 5/2 on the x axis
GridXYZ == [x |-> <<0, 4, 2>>, y |-> <<0, 2, 2>>, z |-> <<0, 4, 2>>]
GridFlat == [x |-> <<0, 4, 2>>, y |-> <<0, 4, 2>>, z |-> <<0, 4, 4>>]
GridOdd == [x |-> <<0, 5, 2>>, y |-> <<0, 4, 2>>, z |-> <<0, 4, 2>>]
GridConfigs == {GridXYZ, GridFlat, GridOdd}

\* create_grid_infos: self.grid_lower_bound
grid_lower_bound(gc) == <<gc.x[1], gc.y[1], gc.z[1]>>

\* create_grid_infos: self.grid_interval
grid_interval(gc) == <<gc.x[3], gc.y[3], gc.z[3]>>

\* create_grid_infos: self.grid_size, the float (upper - lower) / interval of
\* each axis, kept as the rational num / den.  The code does not round it.
grid_size(gc) ==
    <<[num |-> gc.x[2] - gc.x[1], den |-> gc.x[3]],
      [num |-> gc.y[2] - gc.y[1], den |-> gc.y[3]],
      [num |-> gc.z[2] - gc.z[1], den |-> gc.z[3]]>>

\* int(q) of a float q
IntOf(q) == TruncDiv(q.num, q.den)

\* k < q for an integer k and a float q
LessThan(k, q) == k * q.den < q.num

\* create_frustum: self.D and the (D, H_feat, W_feat, 3) frustum of
\* (pixel x, pixel y, depth), for sid = False.
create_frustum(dcfg, isize, ds) ==
    LET H_feat == isize[1] \div ds
        W_feat == isize[2] \div ds
        d == Arange(dcfg[1], dcfg[2], dcfg[3])
        x == Linspace(0, isize[2] - 1, W_feat)
        y == Linspace(0, isize[1] - 1, H_feat)
    IN  [D |-> Len(d), H |-> H_feat, W |-> W_feat,
         \* row-major over (d, h, w)
         pts |-> Force([j \in 1..(Len(d) * H_feat * W_feat) |->
                     <<x[((j - 1) % W_feat) + 1],
                       y[(((j - 1) \div W_feat) % H_feat) + 1],
                       d[((j - 1) \div (W_feat * H_feat)) + 1]>>])]

frustum == create_frustum(depth_cfg, input_size, downsample)

----------------------------------------------------------------------------
(* Tensor shapes: view, broadcast, row-major indexing *)

\* The leading (B, N) shape of a per-camera tensor kept as t[b][n].
LeadShape(t) == <<Len(t), IF Len(t) = 0 THEN 0 ELSE Len(t[1])>>

\* t.view(B, N, ...) is defined iff the element counts agree ...
CanView(t, B, N) == Len(Concat(t)) = B * N

\* ... and then reads the elements in row-major order.
ViewBN(t, B, N) ==
    LET flat == Concat(t)
    IN  Force([b \in 1..B |-> Force([n \in 1..N |-> flat[(b - 1) * N + n]])])

\* The batch shape matmul broadcasts two (B, N) shapes to.
BroadcastShape(s, t) == <<Max(s[1], t[1]), Max(s[2], t[2])>>

Broadcastable(s, t) == \A k \in 1..2 : s[k] = t[k] \/ s[k] = 1 \/ t[k] = 1

\* Element (b, n) of t after broadcasting its leading shape.
BroadcastAt(t, b, n) ==
    t[IF Len(t) = 1 THEN 1 ELSE b][IF Len(t[1]) = 1 THEN 1 ELSE n]

----------------------------------------------------------------------------
(* 4.1 Unprojector: get_lidar_coor *)

Rot(S) == <<SubSeq(S[1], 1, 3), SubSeq(S[2], 1, 3), SubSeq(S[3], 1, 3)>>  \* sensor2ego[:3, :3]
Trn(S) == <<S[1][4], S[2][4], S[3][4]>>                                    \* sensor2ego[:3, 3]

\* Whether get_lidar_coor's views and matmuls are defined for these tensors
\* (otherwise torch raises a RuntimeError).
get_lidar_coor_defined(inp) ==
    LET B == LeadShape(inp.sensor2ego)[1]
        N == LeadShape(inp.sensor2ego)[2]
        cs == LeadShape(inp.cam2imgs)
    IN  /\ CanView(inp.post_trans, B, N)
        /\ CanView(inp.post_rots, B, N)
        /\ Broadcastable(<<B, N>>, cs)
        /\ Prod(BroadcastShape(<<B, N>>, cs)) = B * N
        /\ Len(inp.bda) = B

\* get_lidar_coor: the frustum points in the ego frame, shape (B, N, D, H, W, 3),
\* kept as the shape and the row-major sequence of the 3-vectors.
get_lidar_coor(inp) ==
    LET B == LeadShape(inp.sensor2ego)[1]
        N == LeadShape(inp.sensor2ego)[2]
        DHW == frustum.D * frustum.H * frustum.W
    IN  Bind(ViewBN(inp.post_trans, B, N), LAMBDA post_trans :
        Bind(ViewBN(inp.post_rots, B, N), LAMBDA post_rots :
        Bind(Force([b \in 1..B |-> Force([n \in 1..N |-> Inverse(post_rots[b][n])])]),
             LAMBDA inv_rots :
        Bind(Force([b \in 1..B |-> Force([n \in 1..N |->
                 MatMul(Rot(inp.sensor2ego[b][n]),
                        Inverse(BroadcastAt(inp.cam2imgs, b, n)))])]), LAMBDA combine :
        LET point(i) ==
                LET b == (i \div (N * DHW)) + 1
                    n == ((i \div DHW) % N) + 1
                    p1 == VecSub(frustum.pts[(i % DHW) + 1], post_trans[b][n])
                    p2 == MatVec(inv_rots[b][n], p1)
                    p3 == <<p2[1] * p2[3], p2[2] * p2[3], p2[3]>>
                    p4 == VecAdd(MatVec(combine[b][n], p3), Trn(inp.sensor2ego[b][n]))
                IN  MatVec(inp.bda[b], p4)
        IN  [shape |-> <<B, N, frustum.D, frustum.H, frustum.W>>,
             pts |-> Force([j \in 1..(B * N * DHW) |-> point(j - 1)])]))))

\* The calibration inputs input[1:7] of one call, with input[0]'s shape.
\* Camera n has the pose, intrinsics and image translation cams[n]; batch
\* element b is the same rig moved (b - 1) voxels along x.
MkInput(B, N, cams, bd) ==
    [x_shape |-> <<B, N, in_channels, frustum.H, frustum.W>>,
     sensor2ego |-> Force([b \in 1..B |-> Force([n \in 1..N |->
                        Sensor2Ego(cams[n].R, VecAdd(cams[n].t, <<2 * (b - 1), 0, 0>>))])]),
     ego2global |-> Force([b \in 1..B |-> Force([n \in 1..N |->
                        Sensor2Ego(I3, <<0, 0, 0>>)])]),
     cam2imgs |-> Force([b \in 1..B |-> Force([n \in 1..N |-> cams[n].K])]),
     post_rots |-> Force([b \in 1..B |-> Force([n \in 1..N |-> I3])]),
     post_trans |-> Force([b \in 1..B |-> Force([n \in 1..N |-> cams[n].pt])]),
     bda |-> Force([b \in 1..B |-> bd])]

\* A camera looking along the ego z axis from position t.
CamAt(t) == [R |-> I3, t |-> t, K |-> I3, pt |-> <<0, 0, 0>>]
\* A camera rotated a quarter turn about z.
CamTurned == [R |-> RotZ, t |-> <<0, 0, 0>>, K |-> I3, pt |-> <<0, 0, 0>>]
\* A camera with a principal point and an image-space translation.
CamShifted == [R |-> I3, t |-> <<1, 0, 0>>, K |-> Intrin(1), pt |-> <<1, 0, 0>>]

\* The camera rigs a call may pass (two cameras each; a one-camera batch
\* uses the first):
\*   RigPlain   both cameras at the origin
\*   RigBelow   half a voxel below the grid's lower x bound
\*   RigUpper   one voxel up along x: a point lands on x = 4
\*   RigFar     every point far outside the grid
\*   RigTurned  a rotated first camera
\*   RigCross   a camera two voxels up along x beside a rotated one
\*   RigFlip    principal point, image translation, flipped batch augmentation
RigPlain == [cams |-> <<CamAt(<<0, 0, 0>>), CamAt(<<0, 0, 0>>)>>, bd |-> I3]
RigBelow == [cams |-> <<CamAt(<<-1, 0, 0>>), CamAt(<<0, 0, 0>>)>>, bd |-> I3]
RigUpper == [cams |-> <<CamAt(<<2, 0, 0>>), CamAt(<<0, 0, 0>>)>>, bd |-> I3]
RigFar == [cams |-> <<CamAt(<<9, 9, 9>>), CamAt(<<9, 9, 9>>)>>, bd |-> I3]
RigTurned == [cams |-> <<CamTurned, CamAt(<<0, 0, 0>>)>>, bd |-> I3]
RigCross == [cams |-> <<CamAt(<<4, 0, 0>>), CamTurned>>, bd |-> I3]
RigFlip == [cams |-> <<CamShifted, CamShifted>>, bd |-> FlipX]
Rigs == {RigPlain, RigBelow, RigUpper, RigFar, RigTurned, RigCross, RigFlip}

Inputs(B, N) == { MkInput(B, N, r.cams, r.bd) : r \in Rigs }

----------------------------------------------------------------------------
(* Floats as exact rationals [num, den], den > 0 *)

QInt(k) == [num |-> k, den |-> 1]
QMul(p, q) == [num |-> p.num * q.num, den |-> p.den * q.den]
QAdd(p, q) == [num |-> p.num * q.den + q.num * p.den, den |-> p.den * q.den]
QEq(p, q) == p.num * q.den = q.num * p.den
QLess(p, q) == p.num * q.den < q.num * p.den
QIsInt(q) == q.num % q.den = 0

----------------------------------------------------------------------------
(* 4.2 Pooling planner: voxel_pooling_prepare_v2 *)

\* The outcomes of ranks_bev.argsort() (stable is not requested, so the order
\* of equal keys is not fixed): the model takes the order that keeps equal
\* keys in their original order and the one that reverses them.
TieOrders == {"kept", "reversed"}

\* Whether element i comes before element j (positions of keys) in the order.
Before(keys, tie, i, j) ==
    \/ QLess(keys[i], keys[j])
    \/ /\ QEq(keys[i], keys[j])
       /\ IF tie = "kept" THEN i < j ELSE j < i

\* ranks_bev.argsort(): order[r] is the position of the r-th smallest key.
argsort(keys, tie) ==
    LET m == Len(keys)
    IN  Bind(Force([i \in 1..m |->
                 Cardinality({j \in 1..m : Before(keys, tie, j, i)}) + 1]),
             LAMBDA rank : Force([r \in 1..m |-> CHOOSE i \in 1..m : rank[i] = r]))

\* coor = ((coor - grid_lower_bound) / grid_interval).long(), with the batch
\* index appended: <<x, y, z, b>> of every point.
voxel_coor(gc, coor) ==
    LET B == coor.shape[1]
        num_points == Prod(coor.shape)
    IN  Force([i \in 1..num_points |->
            <<TruncDiv(coor.pts[i][1] - grid_lower_bound(gc)[1], grid_interval(gc)[1]),
              TruncDiv(coor.pts[i][2] - grid_lower_bound(gc)[2], grid_interval(gc)[2]),
              TruncDiv(coor.pts[i][3] - grid_lower_bound(gc)[3], grid_interval(gc)[3]),
              (i - 1) \div (num_points \div B)>>])

\* The range filter on one voxel coordinate c = <<x, y, z, b>>.
in_box(gc, c) ==
    /\ c[1] >= 0 /\ LessThan(c[1], grid_size(gc)[1])
    /\ c[2] >= 0 /\ LessThan(c[2], grid_size(gc)[2])
    /\ c[3] >= 0 /\ LessThan(c[3], grid_size(gc)[3])

\* The positions (1-based, increasing) of the points the range filter keeps.
kept_positions(gc, vc) ==
    SelectSeq(Force([i \in 1..Len(vc) |-> i]), LAMBDA i : in_box(gc, vc[i]))

\* The float composite key of the voxel coordinate c = <<x, y, z, b>>.
bev_key(gc, c) ==
    LET gs == grid_size(gc)
        k1 == QMul(QInt(c[4]), QMul(QMul(gs[3], gs[2]), gs[1]))
        k2 == QAdd(k1, QMul(QInt(c[3]), QMul(gs[2], gs[1])))
    IN  QAdd(k2, QAdd(QMul(QInt(c[2]), gs[1]), QInt(c[1])))

\* ranks_feat before the filter: the index of point i's pixel in (B, N, H, W).
feat_rank(shape, i) ==
    LET HW == shape[4] * shape[5]
        D == shape[3]
    IN  ((i - 1) \div (D * HW)) * HW + ((i - 1) % HW)

\* voxel_pooling_prepare_v2: the five rank arrays, or None.  tie is the
\* outcome of argsort on equal keys.
voxel_pooling_prepare_v2(gc, coor, tie) ==
    Bind(coor, LAMBDA c :
    IF Prod(c.shape) = 0 THEN None             \* len(kept) is the mask's length
    ELSE
    Bind(voxel_coor(gc, c), LAMBDA vc :
    Bind(kept_positions(gc, vc), LAMBDA sel :
    Bind(Force([j \in 1..Len(sel) |-> bev_key(gc, vc[sel[j]])]), LAMBDA keys :
    Bind(argsort(keys, tie), LAMBDA order :
    Bind(Force([r \in 1..Len(sel) |-> keys[order[r]]]), LAMBDA sorted :
    Bind(SelectSeq(Force([r \in 1..Len(sel) |-> r - 1]),
                   LAMBDA r : r = 0 \/ ~QEq(sorted[r + 1], sorted[r])), LAMBDA starts :
    IF Len(starts) = 0 THEN None
    ELSE [none |-> FALSE,
          ranks_bev |-> Force([r \in 1..Len(sel) |-> IntOf(sorted[r])]),
          ranks_depth |-> Force([r \in 1..Len(sel) |-> sel[order[r]] - 1]),
          ranks_feat |-> Force([r \in 1..Len(sel) |->
                                  feat_rank(c.shape, sel[order[r]])]),
          interval_starts |-> starts,
          interval_lengths |->
              Force([g \in 1..Len(starts) |->
                  IF g < Len(starts) THEN starts[g + 1] - starts[g]
                  ELSE Len(sel) - starts[g]])])))))))

----------------------------------------------------------------------------
(* Tensors: a shape and the row-major sequence of the elements *)

\* The row-major strides of a shape.
Strides(shape) ==
    Force([k \in 1..Len(shape) |-> Prod(SubSeq(shape, k + 1, Len(shape)))])

\* torch.zeros(size=shape)
Zeros(shape) == [shape |-> shape, flat |-> Force([j \in 1..Prod(shape) |-> 0])]

\* t.view(shape): the same elements under another shape of equal size.
TView(t, shape) == [shape |-> shape, flat |-> t.flat]

\* t.permute(perm), perm listing the source axis (1-based) of each result
\* axis: the element at result position j has the index ((j \div nst[k]) % ns[k])
\* on result axis k, which is source axis perm[k].
TPermute(t, perm) ==
    Bind(t, LAMBDA x :
    Bind(Strides(x.shape), LAMBDA st :
    Bind(Force([k \in 1..Len(perm) |-> x.shape[perm[k]]]), LAMBDA ns :
    Bind(Strides(ns), LAMBDA nst :
        LET src(j) == SumSeq(Force([k \in 1..Len(perm) |->
                                       ((j \div nst[k]) % ns[k]) * st[perm[k]]]))
        IN  [shape |-> ns,
             flat |-> Force([j \in 1..Prod(ns) |-> x.flat[src(j - 1) + 1]])]))))

\* The sequence s without its k-th element.
Without(s, k) == SubSeq(s, 1, k - 1) \o SubSeq(s, k + 1, Len(s))

\* t.unbind(dim=2): the slices of t along its third axis.
Unbind2(t) ==
    Bind(t, LAMBDA x :
        LET Z == x.shape[3]
            inner == Prod(SubSeq(x.shape, 4, Len(x.shape)))
            outer == x.shape[1] * x.shape[2]
            src(z, j) == (((j \div inner) * Z) + (z - 1)) * inner + (j % inner)
        IN  Force([z \in 1..Z |->
                [shape |-> Without(x.shape, 3),
                 flat |-> Force([j \in 1..(outer * inner) |-> x.flat[src(z, j - 1) + 1]])]]))

\* torch.cat(ts, 1) of equally shaped tensors: slice k fills the block of
\* second-axis indices (k - 1) * c + 1 .. k * c.
Cat1(ts) ==
    Bind(ts, LAMBDA xs :
        LET sh == xs[1].shape
            c == sh[2]
            n == Len(xs)
            inner == Prod(SubSeq(sh, 3, Len(sh)))
            elem(j) ==
                LET a == j \div (c * n * inner)
                    q == (j \div inner) % (c * n)
                IN  xs[(q \div c) + 1].flat[(a * c + (q % c)) * inner + (j % inner) + 1]
        IN  [shape |-> [sh EXCEPT ![2] = c * n],
             flat |-> Force([j \in 1..(sh[1] * c * n * inner) |-> elem(j - 1)])])

\* t.squeeze(2): drops the third axis when its size is 1, else changes nothing.
Squeeze2(t) ==
    Bind(t, LAMBDA x :
        IF Len(x.shape) >= 3 /\ x.shape[3] = 1
        THEN [shape |-> Without(x.shape, 3), flat |-> x.flat]
        ELSE x)

----------------------------------------------------------------------------
(* 4.3 Pooling executor *)

\* The reduction primitive bev_pool_v2 (mmdet3d.ops.bev_pool_v2, outside the
\* files of this model), as the specification states it: every interval adds
\* the sum of depth[ranks_depth] * feat[ranks_feat] over its samples to the
\* output voxel ranks_bev of the interval; untouched voxels are zero; the
\* (B, Z, Y, X, C) buffer is returned as (B, C, Z, Y, X).  A key outside the
\* buffer is a write outside it, which the result records in "oob".
bev_pool_v2(depth, feat, ranks_depth, ranks_feat, ranks_bev, bev_feat_shape, interval_starts, interval_lengths) ==
    LET C == bev_feat_shape[5]
        numel == Prod(bev_feat_shape)
        term(r, c) == depth.flat[ranks_depth[r] + 1] * feat.flat[ranks_feat[r] * C + c]
        group(g, c) ==
            SumSeq(Force([k \in 1..interval_lengths[g] |-> term(interval_starts[g] + k, c)]))
        cell(g) == ranks_bev[interval_starts[g] + 1]
        \* element j (0-based) of the (B, Z, Y, X, C) buffer: voxel j \div C, channel j % C
        out(j) ==
            SumSeq(Force([g \in 1..Len(interval_starts) |->
                      IF cell(g) = j \div C THEN group(g, (j % C) + 1) ELSE 0]))
    IN  Bind(TPermute([shape |-> bev_feat_shape,
                       flat |-> Force([j \in 1..numel |-> out(j - 1)])],
                      <<1, 5, 2, 3, 4>>), LAMBDA x :
            [shape |-> x.shape,
             flat |-> x.flat,
             oob |-> \E g \in 1..Len(interval_starts) : cell(g) * C >= numel])

\* bev_feat_shape = (B, int(grid_size[2]), int(grid_size[1]), int(grid_size[0]), C)
bev_feat_shape(gc, B, C) ==
    <<B, IntOf(grid_size(gc)[3]), IntOf(grid_size(gc)[2]), IntOf(grid_size(gc)[1]), C>>

\* What a call returns: a tensor, or an exception.
Raised(what) == [kind |-> "raise", error |-> what, shape |-> <<>>, flat |-> <<>>]
Returned(t) == [kind |-> "ok", error |-> "", shape |-> t.shape, flat |-> t.flat]

\* voxel_pooling_v2(coor, depth, feat) with depth of shape (B, N, D, H, W) and
\* feat of shape (B, N, C, H, W): the computed plan, the pooled grid before
\* the collapse (NoTensor when the plan is empty) and the grid returned.
voxel_pooling_v2(gc, collapse, coor, depth, feat, tie) ==
    Bind(voxel_pooling_prepare_v2(gc, coor, tie), LAMBDA plan :
    IF plan.none
    THEN LET dummy == Zeros(<<feat.shape[1], feat.shape[3],
                              IntOf(grid_size(gc)[3]),
                              IntOf(grid_size(gc)[1]),
                              IntOf(grid_size(gc)[2])>>)
         IN  [plan |-> plan, pooled |-> NoTensor, ret |-> Returned(Cat1(Unbind2(dummy)))]
    ELSE
    Bind(TPermute(feat, <<1, 2, 4, 5, 3>>), LAMBDA featp :
    Bind(bev_pool_v2(depth, featp, plan.ranks_depth, plan.ranks_feat, plan.ranks_bev,
                     bev_feat_shape(gc, depth.shape[1], featp.shape[5]),
                     plan.interval_starts, plan.interval_lengths), LAMBDA bev_feat :
    [plan |-> plan, pooled |-> bev_feat,
     ret |-> IF collapse THEN Returned(Cat1(Unbind2(bev_feat)))
             ELSE Returned(bev_feat)])))

----------------------------------------------------------------------------
(* 4.4 Acceleration cache and the view transform *)

VARIABLES
    grid_config,       \* constructor argument: the x, y, z grid configuration
    accelerate,        \* constructor argument
    collapse_z,        \* constructor argument
    batch,             \* <<B, N>> of the tensors this instance is called with
    initial_flag,      \* self.initial_flag
    ranks_bev,         \* self.ranks_bev, ... : the stored plan (Unset before)
    ranks_depth,
    ranks_feat,
    interval_starts,
    interval_lengths,
    calls,             \* the number of view_transform calls so far
    call               \* the last call: its arguments, locals and outcome

vars == <<grid_config, accelerate, collapse_z, batch, initial_flag, ranks_bev,
          ranks_depth, ranks_feat, interval_starts, interval_lengths, calls, call>>

\* The batch layouts (B, N) an instance is used with.
Batches == {<<1, 1>>, <<2, 1>>, <<1, 2>>}

\* The depth weights (B*N, D, H, W) and context features (B*N, C, H, W) a call
\* may pass.
DepthInputs(B, N) ==
    LET shape == <<B * N, frustum.D, frustum.H, frustum.W>>
    IN  { [shape |-> shape, flat |-> Force([j \in 1..Prod(shape) |-> j])] }

FeatInputs(B, N) ==
    LET shape == <<B * N, out_channels, frustum.H, frustum.W>>
    IN  { [shape |-> shape, flat |-> Force([j \in 1..Prod(shape) |-> 10 * j])] }

\* The stored plan as one record of the five attributes.
Cache == [ranks_bev |-> ranks_bev, ranks_depth |-> ranks_depth,
          ranks_feat |-> ranks_feat, interval_starts |-> interval_starts,
          interval_lengths |-> interval_lengths]

\* init_acceleration_v2(coor): the attributes after it, or the AttributeError
\* of None.int() when the plan is the empty sentinel (nothing is assigned then).
init_acceleration_v2(cache, plan) ==
    IF plan.none
    THEN [error |-> "AttributeError", cache |-> cache]
    ELSE [error |-> "",
          cache |-> [ranks_bev |-> Stored(plan.ranks_bev),
                     ranks_depth |-> Stored(plan.ranks_depth),
                     ranks_feat |-> Stored(plan.ranks_feat),
                     interval_starts |-> Stored(plan.interval_starts),
                     interval_lengths |-> Stored(plan.interval_lengths)]]

\* pre_compute(input): the flag and the attributes after it, the plan it
\* computed (planned = FALSE when it computed none) and the error it raised.
pre_compute(flag, cache, gc, inp, tie) ==
    IF ~flag
    THEN [error |-> "", initial_flag |-> flag, cache |-> cache,
          planned |-> FALSE, plan |-> None]
    ELSE IF ~get_lidar_coor_defined(inp)
    THEN [error |-> "RuntimeError", initial_flag |-> flag, cache |-> cache,
          planned |-> FALSE, plan |-> None]
    ELSE
    Bind(voxel_pooling_prepare_v2(gc, get_lidar_coor(inp), tie), LAMBDA plan :
    Bind(init_acceleration_v2(cache, plan), LAMBDA init :
    IF init.error # ""
    THEN [error |-> init.error, initial_flag |-> flag, cache |-> cache,
          planned |-> TRUE, plan |-> plan]
    ELSE [error |-> "", initial_flag |-> FALSE, cache |-> init.cache,
          planned |-> TRUE, plan |-> plan]))

\* view_transform_core(input, depth, tran_feat): the plan computed in the call
\* (if any), the pooled (B, C, Z, Y, X) grid and what is returned.
view_transform_core(acc, collapse, gc, cache, inp, depth, tran_feat, tie) ==
    LET B == inp.x_shape[1]
        N == inp.x_shape[2]
        H == inp.x_shape[4]
        W == inp.x_shape[5]
        feat == TView(tran_feat, <<B, N, out_channels, H, W>>)
        depth5 == TView(depth, <<B, N, frustum.D, H, W>>)
    IN  IF acc
        THEN IF ~cache.ranks_depth.set
             THEN [planned |-> FALSE, plan |-> None, pooled |-> NoTensor,
                   ret |-> Raised("AttributeError")]
             ELSE
             Bind(TPermute(feat, <<1, 2, 4, 5, 3>>), LAMBDA featp :
             Bind(bev_pool_v2(depth5, featp, cache.ranks_depth.val,
                              cache.ranks_feat.val, cache.ranks_bev.val,
                              bev_feat_shape(gc, depth5.shape[1], featp.shape[5]),
                              cache.interval_starts.val, cache.interval_lengths.val),
                  LAMBDA bev_feat :
             [planned |-> FALSE, plan |-> None, pooled |-> bev_feat,
              ret |-> Returned(Squeeze2(bev_feat))]))
        ELSE IF ~get_lidar_coor_defined(inp)
             THEN [planned |-> FALSE, plan |-> None, pooled |-> NoTensor,
                   ret |-> Raised("RuntimeError")]
             ELSE
             Bind(voxel_pooling_v2(gc, collapse, get_lidar_coor(inp), depth5, feat, tie),
                  LAMBDA pooled :
             [planned |-> TRUE, plan |-> pooled.plan, pooled |-> pooled.pooled,
              ret |-> pooled.ret])

\* The instance after construction, for every configuration of the model.
Init ==
    /\ grid_config \in GridConfigs
    /\ accelerate \in BOOLEAN
    /\ collapse_z \in BOOLEAN
    /\ batch \in Batches
    /\ initial_flag = TRUE
    /\ ranks_bev = Unset
    /\ ranks_depth = Unset
    /\ ranks_feat = Unset
    /\ interval_starts = Unset
    /\ interval_lengths = Unset
    /\ calls = 0
    /\ call = [made |-> FALSE]

\* view_transform(input, depth, tran_feat): pre_compute when accelerate is
\* set, then view_transform_core; an exception of pre_compute ends the call.
ViewTransform(inp, depth, tran_feat, tie) ==
    \E pre \in {IF accelerate
                THEN pre_compute(initial_flag, Cache, grid_config, inp, tie)
                ELSE [error |-> "", initial_flag |-> initial_flag, cache |-> Cache,
                      planned |-> FALSE, plan |-> None]} :
    \E core \in {IF pre.error # ""
                 THEN [planned |-> FALSE, plan |-> None, pooled |-> NoTensor,
                       ret |-> Raised(pre.error)]
                 ELSE view_transform_core(accelerate, collapse_z, grid_config, pre.cache,
                                          inp, depth, tran_feat, tie)} :
        /\ calls < MaxCalls
        /\ calls' = calls + 1
        /\ initial_flag' = pre.initial_flag
        /\ ranks_bev' = pre.cache.ranks_bev
        /\ ranks_depth' = pre.cache.ranks_depth
        /\ ranks_feat' = pre.cache.ranks_feat
        /\ interval_starts' = pre.cache.interval_starts
        /\ interval_lengths' = pre.cache.interval_lengths
        /\ call' = [made |-> TRUE, input |-> inp, depth |-> depth, tran_feat |-> tran_feat,
                    first |-> accelerate /\ initial_flag,
                    planned |-> pre.planned \/ core.planned,
                    plan |-> IF pre.planned THEN pre.plan ELSE core.plan,
                    pooled |-> core.pooled,
                    ret |-> core.ret]
        /\ UNCHANGED <<grid_config, accelerate, collapse_z, batch>>

Next ==
    \E inp \in Inputs(batch[1], batch[2]) :
    \E depth \in DepthInputs(batch[1], batch[2]) :
    \E tran_feat \in FeatInputs(batch[1], batch[2]) :
    \E tie \in TieOrders :
        ViewTransform(inp, depth, tran_feat, tie)

Spec == Init /\ [][Next]_vars

----------------------------------------------------------------------------
(* 5. The contract, stated on the last call of an instance *)

\* The world points get_lidar_coor computed from the last call's tensors.
Coor == get_lidar_coor(call.input)

\* The last call computed a pooling plan / a plan that is not the sentinel.
Planned == call.made /\ call.planned
NonEmpty == Planned /\ ~call.plan.none

\* The integer voxel counts (X, Y, Z) and the batch size of the instance.
Counts ==
    <<IntOf(grid_size(grid_config)[1]), IntOf(grid_size(grid_config)[2]),
      IntOf(grid_size(grid_config)[3])>>
BatchSize == batch[1]

\* (lower, upper, interval) of axis a of the grid.
AxisCfg(a) == IF a = 1 THEN grid_config.x ELSE IF a = 2 THEN grid_config.y ELSE grid_config.z

\* floor((p - lower) / interval) on axis a (\div rounds down).
FloorIdx(p, a) == (p[a] - AxisCfg(a)[1]) \div AxisCfg(a)[3]

\* p lies in [lower, upper) on all three axes.
InGrid(p) == \A a \in 1..3 : AxisCfg(a)[1] <= p[a] /\ p[a] < AxisCfg(a)[2]

\* Whether every element of the sequence is zero.
AllZero(flat) == \A j \in 1..Len(flat) : flat[j] = 0

\* C1: in the non-accelerated transform every output voxel (b, z, y, x) holds
\* the sum of depth_weight * feature (of the sample's own pixel) over exactly
\* the samples whose world point falls in that voxel, and a voxel without a
\* sample is zero.
C1_WeightedSum ==
    (call.made /\ ~accelerate /\ call.planned) =>
        Bind(Coor, LAMBDA coor :
            LET N == coor.shape[2]
                D == coor.shape[3]
                HW == coor.shape[4] * coor.shape[5]
                C == out_channels
                X == Counts[1]
                Y == Counts[2]
                Z == Counts[3]
                n == Prod(coor.shape)
                feature(i, c) ==
                    call.tran_feat.flat[(((i - 1) \div (D * HW)) * C + (c - 1)) * HW
                                        + ((i - 1) % HW) + 1]
                inside(i, b, z, y, x) ==
                    /\ (i - 1) \div (N * D * HW) = b
                    /\ FloorIdx(coor.pts[i], 1) = x
                    /\ FloorIdx(coor.pts[i], 2) = y
                    /\ FloorIdx(coor.pts[i], 3) = z
                want(b, c, z, y, x) ==
                    SumSeq(Force([i \in 1..n |->
                        IF inside(i, b, z, y, x)
                        THEN call.depth.flat[i] * feature(i, c) ELSE 0]))
                got(b, c, z, y, x) ==
                    IF call.plan.none THEN 0
                    ELSE call.pooled.flat[((((b * C + (c - 1)) * Z + z) * Y + y) * X + x) + 1]
            IN  /\ call.ret.kind = "ok"
                /\ call.plan.none => AllZero(call.ret.flat)
                /\ ~call.plan.none =>
                       /\ call.pooled.shape = <<BatchSize, C, Z, Y, X>>
                       /\ ~call.pooled.oob
                /\ \A b \in 0..(BatchSize - 1), c \in 1..C, z \in 0..(Z - 1),
                      y \in 0..(Y - 1), x \in 0..(X - 1) :
                       got(b, c, z, y, x) = want(b, c, z, y, x))

\* C2: every non-empty plan has equally long rank arrays whose length is the
\* sum of the interval lengths, starts at 0, has contiguous groups, one key
\* per group, and strictly increasing keys from group to group.
C2_PlanInvariants ==
    NonEmpty =>
        LET q == call.plan
            m == Len(q.ranks_bev)
            G == Len(q.interval_starts)
            first(g) == q.ranks_bev[q.interval_starts[g] + 1]
        IN  /\ SumSeq(q.interval_lengths) = m
            /\ Len(q.ranks_depth) = m
            /\ Len(q.ranks_feat) = m
            /\ Len(q.interval_lengths) = G
            /\ q.interval_starts[1] = 0
            /\ \A g \in 1..G :
                   q.interval_starts[g] + q.interval_lengths[g] =
                       IF g < G THEN q.interval_starts[g + 1] ELSE m
            /\ \A g \in 1..G : \A k \in 1..q.interval_lengths[g] :
                   q.ranks_bev[q.interval_starts[g] + k] = first(g)
            /\ \A g \in 1..(G - 1) : first(g) < first(g + 1)

\* C3: the ranks_bev entry of a surviving sample with batch index b and voxel
\* index (x, y, z) is b*Z*Y*X + z*Y*X + y*X + x for the integer voxel counts,
\* so it is injective over (b, z, y, x) and lies in [0, B*Z*Y*X).
C3_CompositeKey ==
    NonEmpty =>
        Bind(voxel_coor(grid_config, Coor), LAMBDA vc :
            LET q == call.plan
                X == Counts[1]
                Y == Counts[2]
                Z == Counts[3]
                at(r) == vc[q.ranks_depth[r] + 1]
            IN  /\ \A r \in 1..Len(q.ranks_bev) :
                       /\ q.ranks_bev[r] = at(r)[4] * Z * Y * X + at(r)[3] * Y * X
                                           + at(r)[2] * X + at(r)[1]
                       /\ q.ranks_bev[r] >= 0
                       /\ q.ranks_bev[r] < BatchSize * Z * Y * X
                /\ \A r, t \in 1..Len(q.ranks_bev) :
                       q.ranks_bev[r] = q.ranks_bev[t] => at(r) = at(t))

\* C4: a sample of the plan has the voxel index floor((p - lower) / interval)
\* on every axis, and no sample whose world coordinate is below the lower
\* bound or at or above the upper bound of an axis is in the plan.
C4_FloorAndRange ==
    NonEmpty =>
        Bind(Coor, LAMBDA coor :
        Bind(voxel_coor(grid_config, coor), LAMBDA vc :
            \A r \in 1..Len(call.plan.ranks_depth) :
                LET i == call.plan.ranks_depth[r] + 1
                IN  /\ InGrid(coor.pts[i])
                    /\ \A a \in 1..3 : vc[i][a] = FloorIdx(coor.pts[i], a)))

\* C5: a sample with every coordinate in [lower, upper), the lower bound
\* included, is in the plan exactly once; a sample with a coordinate exactly
\* at the upper bound of an axis is not in the plan.
C5_HalfOpen ==
    Planned =>
        Bind(Coor, LAMBDA coor :
            \A i \in 1..Len(coor.pts) :
                LET occurrences ==
                        Cardinality({r \in 1..Len(call.plan.ranks_depth) :
                                        call.plan.ranks_depth[r] = i - 1})
                IN  /\ InGrid(coor.pts[i]) => occurrences = 1
                    /\ (\E a \in 1..3 : coor.pts[i][a] = AxisCfg(a)[2]) => occurrences = 0)

\* C6: when no sample survives the range filter, the planner returns the
\* sentinel and voxel_pooling_v2 returns, without raising, an all-zero grid of
\* shape (B, C*Z, Y, X) if collapse_z is set and (B, C, Z, Y, X) otherwise.
C6_EmptyPlanZeroGrid ==
    (call.made /\ ~accelerate /\ call.planned) =>
        LET C == out_channels
            X == Counts[1]
            Y == Counts[2]
            Z == Counts[3]
            survivors == kept_positions(grid_config, voxel_coor(grid_config, Coor))
        IN  Len(survivors) = 0 =>
                /\ call.plan.none
                /\ call.ret.kind = "ok"
                /\ AllZero(call.ret.flat)
                /\ call.ret.shape = IF collapse_z THEN <<BatchSize, C * Z, Y, X>>
                                    ELSE <<BatchSize, C, Z, Y, X>>

\* C7: the voxel count of an axis is the truncated integer in the range
\* filter, the key strides and the output shape alike: every kept sample's
\* voxel index is below the output grid's extent on its axis, and every
\* ranks_bev key is an integer below B*Z*Y*X.
C7_TruncatedGridSize ==
    NonEmpty =>
        Bind(voxel_coor(grid_config, Coor), LAMBDA vc :
            \A r \in 1..Len(call.plan.ranks_bev) :
                LET c == vc[call.plan.ranks_depth[r] + 1]
                IN  /\ \A a \in 1..3 : c[a] < Counts[a]
                    /\ QIsInt(bev_key(grid_config, c))
                    /\ call.plan.ranks_bev[r] < BatchSize * Counts[3] * Counts[2] * Counts[1])

\* The five stored plan arrays.
StoredPlan == <<ranks_bev, ranks_depth, ranks_feat, interval_starts, interval_lengths>>

\* C8: with accelerate, the first view_transform call computes and stores the
\* plan and clears initial_flag; a later call leaves the stored arrays and
\* initial_flag unchanged and computes no plan; and accelerated pooling never
\* runs before a plan is stored.
C8_PlanStoredOnce ==
    [][accelerate =>
        /\ calls = 0 =>
               /\ call'.planned
               /\ ~initial_flag'
               /\ \A k \in 1..5 : StoredPlan'[k].set
               /\ StoredPlan' = <<Stored(call'.plan.ranks_bev), Stored(call'.plan.ranks_depth),
                                  Stored(call'.plan.ranks_feat),
                                  Stored(call'.plan.interval_starts),
                                  Stored(call'.plan.interval_lengths)>>
        /\ calls >= 1 =>
               /\ ~call'.planned
               /\ UNCHANGED <<initial_flag, StoredPlan>>
        /\ call'.pooled # NoTensor => \A k \in 1..5 : StoredPlan'[k].set]_vars

\* C9: an instance that has stored a plan offers a reset: an operation after
\* which initial_flag is set again, so that the next accelerated call plans
\* from its own geometry.
C9_ResetExists ==
    (accelerate /\ ~initial_flag /\ calls < MaxCalls) => ENABLED (Next /\ initial_flag')

\* C10: with collapse_z the returned grid has shape (B, C*Z, Y, X) and its
\* channel z*C + c at (y, x) is pooled[b, c, z, y, x], for every Z >= 1.
C10_CollapseRearranges ==
    (call.made /\ collapse_z /\ call.ret.kind = "ok" /\ call.pooled # NoTensor) =>
        LET C == call.pooled.shape[2]
            Z == call.pooled.shape[3]
            Y == call.pooled.shape[4]
            X == call.pooled.shape[5]
        IN  /\ call.ret.shape = <<BatchSize, C * Z, Y, X>>
            /\ \A b \in 0..(BatchSize - 1), c \in 0..(C - 1), z \in 0..(Z - 1),
                  y \in 0..(Y - 1), x \in 0..(X - 1) :
                   call.ret.flat[(((b * C * Z + z * C + c) * Y + y) * X + x) + 1] =
                       call.pooled.flat[((((b * C + c) * Z + z) * Y + y) * X + x) + 1]

\* C14: inside every group of a plan the samples are in their original order
\* (ranks_depth strictly increasing), so that the plan is a function of the
\* world points alone.
C14_StableGroups ==
    NonEmpty =>
        LET q == call.plan
        IN  \A g \in 1..Len(q.interval_starts) :
                \A k \in 1..(q.interval_lengths[g] - 1) :
                    q.ranks_depth[q.interval_starts[g] + k] <
                        q.ranks_depth[q.interval_starts[g] + k + 1]

\* C20: with accelerate, a call that plans from a geometry without any point
\* inside the grid completes without raising and returns an all-zero grid of
\* shape (B, C*Z, Y, X) if collapse_z is set and (B, C, Z, Y, X) otherwise.
C20_EmptyAcceleratedCall ==
    (call.made /\ accelerate /\ call.planned) =>
        LET C == out_channels
            X == Counts[1]
            Y == Counts[2]
            Z == Counts[3]
            survivors == kept_positions(grid_config, voxel_coor(grid_config, Coor))
        IN  Len(survivors) = 0 =>
                /\ call.ret.kind = "ok"
                /\ AllZero(call.ret.flat)
                /\ call.ret.shape = IF collapse_z THEN <<BatchSize, C * Z, Y, X>>
                                    ELSE <<BatchSize, C, Z, Y, X>>

\* C21: an accelerated call that pools with the plan of its own geometry (the
\* first call, with at least one point inside the grid) returns the grid, in
\* shape and values, that voxel_pooling_v2 returns for the same geometry,
\* depth weights and features, whatever collapse_z and Z are.
C21_AcceleratedEqualsDirect ==
    (call.made /\ accelerate /\ call.first /\ call.planned /\ ~call.plan.none) =>
        LET B == call.input.x_shape[1]
            N == call.input.x_shape[2]
            H == call.input.x_shape[4]
            W == call.input.x_shape[5]
        IN  \A tie \in TieOrders :
                call.ret = voxel_pooling_v2(grid_config, collapse_z, Coor,
                                            TView(call.depth, <<B, N, frustum.D, H, W>>),
                                            TView(call.tran_feat, <<B, N, out_channels, H, W>>),
                                            tie).ret

----------------------------------------------------------------------------
(* 6. The unprojector applied to calibration tensors of any leading shape *)

\* The leading (B, N) shapes a calibration tensor may come with.
LeadShapes == {<<1, 1>>, <<1, 2>>, <<2, 1>>, <<2, 2>>}

\* Two cameras that differ in pose, intrinsics and image translation.
RigMixed == [cams |-> <<CamShifted, CamTurned>>, bd |-> FlipX]

\* The arguments of get_lidar_coor with the leading shape of each tensor chosen
\* on its own: sensor2ego s, cam2imgs c, post_rots r, post_trans t, and bda
\* with bB batch elements.  Entry (b, n) of a tensor is camera n's.
MkTensors(s, c, r, t, bB, rig) ==
    [x_shape |-> <<s[1], s[2], in_channels, frustum.H, frustum.W>>,
     sensor2ego |-> Force([b \in 1..s[1] |-> Force([n \in 1..s[2] |->
                        Sensor2Ego(rig.cams[n].R, rig.cams[n].t)])]),
     ego2global |-> Force([b \in 1..s[1] |-> Force([n \in 1..s[2] |->
                        Sensor2Ego(I3, <<0, 0, 0>>)])]),
     cam2imgs |-> Force([b \in 1..c[1] |-> Force([n \in 1..c[2] |-> rig.cams[n].K])]),
     post_rots |-> Force([b \in 1..r[1] |-> Force([n \in 1..r[2] |-> I3])]),
     post_trans |-> Force([b \in 1..t[1] |-> Force([n \in 1..t[2] |-> rig.cams[n].pt])]),
     bda |-> Force([b \in 1..bB |-> rig.bd])]

GeometryInputs ==
    { MkTensors(s, c, r, t, bB, RigMixed) :
          s \in LeadShapes, c \in LeadShapes, r \in LeadShapes, t \in LeadShapes,
          bB \in 1..2 }

\* An instance on which a single method is applied: the attributes as
\* __init__ leaves them, and the arguments of the call still to be made.
Constructed(pending) ==
    /\ grid_config = GridXYZ
    /\ accelerate = FALSE
    /\ collapse_z = FALSE
    /\ batch = <<1, 1>>
    /\ initial_flag = TRUE
    /\ ranks_bev = Unset
    /\ ranks_depth = Unset
    /\ ranks_feat = Unset
    /\ interval_starts = Unset
    /\ interval_lengths = Unset
    /\ calls = 0
    /\ call \in pending

\* What every method leaves alone: the attributes of the pooling instance.
Attributes ==
    <<grid_config, accelerate, collapse_z, batch, initial_flag, ranks_bev,
      ranks_depth, ranks_feat, interval_starts, interval_lengths, calls>>

InitGeometry ==
    Constructed({ [made |-> FALSE, op |-> "get_lidar_coor", input |-> inp] :
                      inp \in GeometryInputs })

\* get_lidar_coor(sensor2ego, ego2global, cam2imgs, post_rots, post_trans, bda)
GetLidarCoor ==
    /\ ~call.made
    /\ call.op = "get_lidar_coor"
    /\ call' = [made |-> TRUE, op |-> call.op, input |-> call.input,
                ret |-> IF get_lidar_coor_defined(call.input)
                        THEN [kind |-> "ok", error |-> "",
                              coor |-> get_lidar_coor(call.input)]
                        ELSE [kind |-> "raise", error |-> "RuntimeError",
                              coor |-> [shape |-> <<>>, pts |-> <<>>]]]
    /\ UNCHANGED Attributes

NextGeometry == GetLidarCoor

SpecGeometry == InitGeometry /\ [][NextGeometry]_vars

\* The leading shapes of the four per-camera tensors are one (B, N), and bda
\* has B elements.
ShapesAgree(inp) ==
    LET s == LeadShape(inp.sensor2ego)
    IN  /\ LeadShape(inp.cam2imgs) = s
        /\ LeadShape(inp.post_rots) = s
        /\ LeadShape(inp.post_trans) = s
        /\ Len(inp.bda) = s[1]

\* C11: get_lidar_coor fails with an error whenever the leading (B, N) shape
\* of sensor2ego, cam2imgs, post_rots or post_trans, or the B of bda,
\* disagrees with another's; it returns no world points for such tensors.
C11_MismatchRaises ==
    (call.made /\ call.op = "get_lidar_coor" /\ ~ShapesAgree(call.input)) =>
        call.ret.kind = "raise"

----------------------------------------------------------------------------
(* 7. Floating-point numbers of the depth model *)

(***************************************************************************)
(* The depth model exponentiates, so its numbers are not kept as exact     *)
(* rationals.  A float is m * 2^e with a signed mantissa of MantissaBits   *)
(* bits (2^(MantissaBits-1) <= |m| < 2^MantissaBits), or zero.  It has     *)
(* float32's underflow: a magnitude below 2^-149, the smallest float32     *)
(* above zero, is zero.  Results are rounded toward zero.  The inputs of   *)
(* the model stay far below float32's largest value, so overflow is not    *)
(* represented.  NaN is the result of 0 / 0.                               *)
(***************************************************************************)
MantissaBits == 12

RECURSIVE Pow2(_)
Pow2(n) == IF n <= 0 THEN 1 ELSE 2 * Pow2(n - 1)

Zero == [m |-> 0, e |-> 0, nan |-> FALSE]
NaN == [m |-> 0, e |-> 0, nan |-> TRUE]

\* The float of the integer m times 2^e.
RECURSIVE Norm(_, _)
Norm(m, e) ==
    LET a == IF m < 0 THEN -m ELSE m
    IN  IF m = 0 THEN Zero
        ELSE IF a >= Pow2(MantissaBits) THEN Norm(TruncDiv(m, 2), e + 1)
        ELSE IF a < Pow2(MantissaBits - 1) THEN Norm(2 * m, e - 1)
        ELSE IF e + MantissaBits - 1 < -149 THEN Zero
        ELSE [m |-> m, e |-> e, nan |-> FALSE]

FInt(k) == Norm(k, 0)

FNeg(a) == [a EXCEPT !.m = -a.m]

FAdd(a, b) ==
    IF a.nan \/ b.nan THEN NaN
    ELSE IF a.m = 0 THEN b
    ELSE IF b.m = 0 THEN a
    ELSE IF a.e >= b.e
         THEN IF a.e - b.e > MantissaBits + 1 THEN a
              ELSE Norm(a.m * Pow2(a.e - b.e) + b.m, b.e)
         ELSE IF b.e - a.e > MantissaBits + 1 THEN b
              ELSE Norm(b.m * Pow2(b.e - a.e) + a.m, a.e)

FMul(a, b) == IF a.nan \/ b.nan THEN NaN ELSE Norm(a.m * b.m, a.e + b.e)

\* a / b; the only division by zero the model reaches is 0 / 0.
FDiv(a, b) ==
    IF a.nan \/ b.nan \/ b.m = 0 THEN NaN
    ELSE Norm(TruncDiv(a.m * Pow2(MantissaBits), b.m), a.e - b.e - MantissaBits)

\* The float of the fraction n / d.
FRat(n, d) == FDiv(FInt(n), FInt(d))

\* a < b (false when either is NaN)
FLess(a, b) == ~a.nan /\ ~b.nan /\ FAdd(a, FNeg(b)).m < 0

\* 1 + t/j * (1 + t/(j+1) * (... (1 + t/9))) in units of 2^-14: the series of
\* exp(t * 2^-14) for 0 <= t * 2^-14 < ln 2, from its j-th term on.
RECURSIVE ExpSeries(_, _)
ExpSeries(t, j) ==
    IF j > 9 THEN 16384 ELSE 16384 + (t * ExpSeries(t, j + 1)) \div (j * 16384)

\* torch.exp(x): x = k * ln 2 + r with 0 <= r < ln 2 (in units of 2^-16,
\* where ln 2 is 45426), and exp(x) = 2^k * exp(r).
FExp(x) ==
    IF x.nan THEN NaN
    ELSE IF x.e > 2 THEN (IF x.m < 0 THEN Zero ELSE Norm(1, 16384))
    ELSE LET X == IF x.e + 16 >= 0 THEN x.m * Pow2(x.e + 16)
                  ELSE x.m \div Pow2(-(x.e + 16))
             k == X \div 45426
             r == X - k * 45426
         IN  Norm(ExpSeries(r \div 4, 1), k - 14)

\* torch.log(2 * pi) = 1.83788
Log2Pi == FRat(15056, 8192)

----------------------------------------------------------------------------
(* 8. Uncertainty depth model: generate_depth_distribution *)

\* s[k] + ... + s[Len(s)] of floats (torch.sum)
RECURSIVE FSum(_, _)
FSum(s, k) == IF k > Len(s) THEN Zero ELSE FAdd(s[k], FSum(s, k + 1))

\* The default of generate_depth_distribution's eps argument, 1e-6.
eps == FRat(1, 1000000)

\* generate_depth_distribution(depth_mean, logvar, num_depth_bins): the
\* (B, D, H, W) weights from (B, H, W) means and log-variances.
generate_depth_distribution(depth_mean, logvar, num_depth_bins) ==
    LET B == depth_mean.shape[1]
        HW == depth_mean.shape[2] * depth_mean.shape[3]
        D == num_depth_bins
        \* pixel p (0-based, b * HW + hw) and depth bin k (0-based)
        log_prob(p, k) ==
            LET mean == FMul(depth_mean.flat[p + 1], FInt(D))
                variance == FExp(logvar.flat[p + 1])
                diff == FAdd(FInt(k), FNeg(mean))
            IN  FAdd(FMul(FRat(-1, 2), FAdd(Log2Pi, logvar.flat[p + 1])),
                     FNeg(FDiv(FMul(FRat(1, 2), FMul(diff, diff)),
                               FAdd(variance, eps))))
    IN  Bind(Force([j \in 1..(B * D * HW) |->
                 FExp(log_prob(((j - 1) \div (D * HW)) * HW + ((j - 1) % HW),
                               ((j - 1) \div HW) % D))]), LAMBDA prob :
        Bind(Force([p \in 1..(B * HW) |->
                 FAdd(FSum(Force([k \in 1..D |->
                          prob[((p - 1) \div HW) * D * HW + (k - 1) * HW
                               + ((p - 1) % HW) + 1]]), 1), eps)]), LAMBDA total :
        [shape |-> <<B, D, depth_mean.shape[2], depth_mean.shape[3]>>,
         flat |-> Force([j \in 1..(B * D * HW) |->
                     FDiv(prob[j], total[((j - 1) \div (D * HW)) * HW
                                         + ((j - 1) % HW) + 1])])]))

\* tensor.long() of a float: rounds toward zero.
FToInt(a) == IF a.e >= 0 THEN a.m * Pow2(a.e) ELSE TruncDiv(a.m, Pow2(-a.e))

\* The constructor's default loss_depth_weight, 3.0.
loss_depth_weight == 3

\* The minimum of a window with its zeros left in: what the downsampling
\* would take if a missing return were not replaced by 1e5.
window_min_with_zeros(w) ==
    CHOOSE v \in {w[k] : k \in 1..Len(w)} : \A k \in 1..Len(w) : v <= w[k]

\* The minimum of a downsample x downsample window of depths in which every
\* 0.0 is replaced by 1e5.
window_min(w) ==
    LET tmp == Force([k \in 1..Len(w) |-> IF w[k] = 0 THEN 100000 ELSE w[k]])
    IN  CHOOSE v \in {tmp[k] : k \in 1..Len(w)} : \A k \in 1..Len(w) : v <= tmp[k]

\* get_downsampled_gt_depth(gt_depths, for_uncertainty) of an instance with
\* grid_config['depth'] = cfg.depth, downsample = cfg.downsample and
\* sid = False, on (B, N, H, W) depths: the (B*N*h*w) normalised depths, or
\* the (B*N*h*w, D) rows of the one-hot form.
get_downsampled_gt_depth(cfg, gt_depths, for_uncertainty) ==
    LET BN == gt_depths.shape[1] * gt_depths.shape[2]
        H == gt_depths.shape[3]
        W == gt_depths.shape[4]
        ds == cfg.downsample
        h == H \div ds
        w == W \div ds
        D == ArangeLen(cfg.depth[1], cfg.depth[2], cfg.depth[3])
        \* the window of cell c (0-based over (bn, i, j)), row by row
        window(c) ==
            Force([k \in 1..(ds * ds) |->
                gt_depths.flat[(c \div (h * w)) * H * W
                               + (((c \div w) % h) * ds + (k - 1) \div ds) * W
                               + (c % w) * ds + ((k - 1) % ds) + 1]])
        normalized(c) ==
            FDiv(FInt(window_min(window(c)) - (cfg.depth[1] - cfg.depth[3])),
                 FInt(cfg.depth[3]))
        value(c) ==
            LET g == normalized(c)
            IN  FDiv(IF FLess(g, FInt(D)) /\ ~FLess(g, Zero) THEN g ELSE Zero, FInt(D))
    IN  IF BN * H * W # BN * h * ds * w * ds
        THEN [kind |-> "raise", error |-> "RuntimeError", shape |-> <<>>, flat |-> <<>>]
        ELSE
        Bind(Force([c \in 1..(BN * h * w) |-> value(c - 1)]), LAMBDA gt :
            IF for_uncertainty
            THEN [kind |-> "ok", error |-> "", shape |-> <<BN * h * w>>, flat |-> gt]
            ELSE [kind |-> "ok", error |-> "", shape |-> <<BN * h * w, D>>,
                  \* one_hot(gt.long(), D + 1)[:, 1:]: column k is class k
                  flat |-> Force([j \in 1..(BN * h * w * D) |->
                              IF FToInt(gt[((j - 1) \div D) + 1]) = ((j - 1) % D) + 1
                              THEN FInt(1) ELSE Zero])])

\* A mask that keeps every cell: what the loss would use if the background
\* were not excluded.
every_cell(gt_depth) == Force([i \in 1..Len(gt_depth) |-> TRUE])

\* fg_mask = gt_depth > 0.0
fg_mask(gt_depth) == Force([i \in 1..Len(gt_depth) |-> FLess(Zero, gt_depth[i])])

\* F.smooth_l1_loss(x, y, beta=1.0, reduction='none') of one element
smooth_l1_loss(x, y) ==
    LET d == FAdd(x, FNeg(y))
        a == IF d.m < 0 THEN FNeg(d) ELSE d
    IN  IF FLess(a, FInt(1)) THEN FMul(FRat(1, 2), FMul(a, a))
        ELSE FAdd(a, FRat(-1, 2))

\* get_depth_loss(depth_labels, depth_preds) with depth_preds = (depth, logvar),
\* each of B*N*h*w elements.
get_depth_loss(cfg, depth_labels, depth_preds) ==
    LET D == FInt(ArangeLen(cfg.depth[1], cfg.depth[2], cfg.depth[3]))
    IN  Bind(get_downsampled_gt_depth(cfg, depth_labels, TRUE), LAMBDA gt_depth :
        IF gt_depth.kind = "raise" THEN gt_depth
        ELSE IF Len(depth_preds.depth) # Len(gt_depth.flat)
                \/ Len(depth_preds.logvar) # Len(gt_depth.flat)
        THEN [kind |-> "raise", error |-> "IndexError", shape |-> <<>>, flat |-> <<>>]
        ELSE
        Bind(fg_mask(gt_depth.flat), LAMBDA mask :
        Bind(SelectSeq(Force([i \in 1..Len(mask) |-> i]), LAMBDA i : mask[i]), LAMBDA fg :
            LET term(i) ==
                    LET depth == FMul(depth_preds.depth[i], D)
                        logvar == IF FLess(depth_preds.logvar[i], FInt(-10)) THEN FInt(-10)
                                  ELSE depth_preds.logvar[i]
                        smooth_value == smooth_l1_loss(depth, FMul(gt_depth.flat[i], D))
                    IN  FAdd(FDiv(FMul(smooth_value, FExp(FNeg(logvar))), FInt(2)),
                             FDiv(logvar, FInt(2)))
                \* .mean(): the sum over the count (0 / 0 for no element)
                loss == FDiv(FSum(Force([j \in 1..Len(fg) |-> term(fg[j])]), 1),
                             FInt(Len(fg)))
            IN  [kind |-> "ok", error |-> "", shape |-> <<>>,
                 flat |-> <<FMul(FInt(loss_depth_weight), loss)>>])))

\* The (mean, log-variance) values a pixel may carry: the means forward
\* passes lie in (0, 1) (a sigmoid), the log-variances are clamped at -10.
Means == {FRat(1, 8), FRat(1, 4), FRat(1, 2), FRat(3, 4)}
Logvars == {FInt(-10), FInt(-5), FInt(0), FInt(2)}

\* The numbers of depth bins of the instances of the depth model.
NumBins == {2, 4}

\* Two pixels with independent means and log-variances.
DistributionInputs ==
    { [made |-> FALSE, op |-> "generate_depth_distribution",
       depth_mean |-> [shape |-> <<1, 1, 2>>, flat |-> <<m1, m2>>],
       logvar |-> [shape |-> <<1, 1, 2>>, flat |-> <<v1, v2>>],
       num_depth_bins |-> D] :
          m1 \in Means, m2 \in Means, v1 \in Logvars, v2 \in Logvars, D \in NumBins }

\* The depth ranges (lower, upper, interval) and downsample factors of the
\* instances of the depth model: D = 2 bins at depths 1, 2 and D = 4 bins at
\* depths 2, 4, 6, 8.
DepthConfigs ==
    { [depth |-> d, downsample |-> ds] : d \in {depth_cfg, <<2, 10, 2>>}, ds \in 1..2 }

\* The downsample x downsample windows of LiDAR depths (0 = no return) a
\* ground-truth map is made of, row by row.
Windows(ds) ==
    IF ds = 1 THEN {<<0>>, <<1>>, <<2>>, <<3>>, <<9>>}
    ELSE {<<0, 0, 0, 0>>, <<0, 2, 0, 0>>, <<3, 0, 1, 0>>, <<2, 3, 4, 9>>, <<9, 0, 0, 0>>}

\* The (1, 1, ds, 2 * ds) ground-truth map of the windows w1 and w2 side by side.
MkLabels(ds, w1, w2) ==
    [shape |-> <<1, 1, ds, 2 * ds>>,
     flat |-> Force([j \in 1..(2 * ds * ds) |->
                 LET r == (j - 1) \div (2 * ds)
                     c == (j - 1) % (2 * ds)
                 IN  (IF c < ds THEN w1 ELSE w2)[r * ds + (c % ds) + 1]])]

GtDepthInputs ==
    UNION { { [made |-> FALSE, op |-> "get_downsampled_gt_depth", cfg |-> cfg,
               gt_depths |-> MkLabels(cfg.downsample, w1, w2), for_uncertainty |-> u] :
                  w1 \in Windows(cfg.downsample), w2 \in Windows(cfg.downsample),
                  u \in BOOLEAN } : cfg \in DepthConfigs }

\* The (depth, logvar) predictions of two cells; a log-variance of -20 is
\* below the clamp.
PredCells == { <<m, v>> : m \in {FRat(1, 4), FRat(3, 4)}, v \in {FInt(-20), FInt(1)} }

LossInputs ==
    UNION { { [made |-> FALSE, op |-> "get_depth_loss", cfg |-> cfg,
               depth_labels |-> MkLabels(cfg.downsample, w1, w2),
               depth_preds |-> [depth |-> <<p1[1], p2[1]>>, logvar |-> <<p1[2], p2[2]>>]] :
                  w1 \in Windows(cfg.downsample), w2 \in Windows(cfg.downsample),
                  p1 \in PredCells, p2 \in PredCells } : cfg \in DepthConfigs }

InitDepth == Constructed(DistributionInputs \cup GtDepthInputs \cup LossInputs)

GenerateDepthDistribution ==
    /\ ~call.made
    /\ call.op = "generate_depth_distribution"
    /\ call' = [call EXCEPT !.made = TRUE] @@
               [ret |-> generate_depth_distribution(call.depth_mean, call.logvar,
                                                    call.num_depth_bins)]
    /\ UNCHANGED Attributes

GetDownsampledGtDepth ==
    /\ ~call.made
    /\ call.op = "get_downsampled_gt_depth"
    /\ call' = [call EXCEPT !.made = TRUE] @@
               [ret |-> get_downsampled_gt_depth(call.cfg, call.gt_depths,
                                                 call.for_uncertainty)]
    /\ UNCHANGED Attributes

GetDepthLoss ==
    /\ ~call.made
    /\ call.op = "get_depth_loss"
    /\ call' = [call EXCEPT !.made = TRUE] @@
               [gt_depth |-> get_downsampled_gt_depth(call.cfg, call.depth_labels, TRUE),
                ret |-> get_depth_loss(call.cfg, call.depth_labels, call.depth_preds)]
    /\ UNCHANGED Attributes

NextDepth == GenerateDepthDistribution \/ GetDownsampledGtDepth \/ GetDepthLoss

SpecDepth == InitDepth /\ [][NextDepth]_vars

\* The tolerance within which a sum of bin weights counts as 1.
Tolerance == FRat(1, 100)

\* The weights of pixel p (0-based) of a (B, D, H, W) distribution, by bin.
BinWeights(dist, p) ==
    LET D == dist.shape[2]
        HW == dist.shape[3] * dist.shape[4]
    IN  Force([k \in 1..D |->
            dist.flat[(p \div HW) * D * HW + (k - 1) * HW + (p % HW) + 1]])

\* C12: for every pixel with a finite mean and a log-variance of at least -10,
\* generate_depth_distribution returns non-negative bin weights that sum to 1
\* within the tolerance, also when every bin's Gaussian term underflows.
C12_DistributionSumsToOne ==
    (call.made /\ call.op = "generate_depth_distribution") =>
        \A p \in 0..(Len(call.depth_mean.flat) - 1) :
            Bind(BinWeights(call.ret, p), LAMBDA w :
                /\ \A k \in 1..Len(w) : ~w[k].nan /\ w[k].m >= 0
                /\ ~FLess(FSum(w, 1), FAdd(FInt(1), FNeg(Tolerance)))
                /\ ~FLess(FAdd(FInt(1), Tolerance), FSum(w, 1)))

\* The non-zero depths of the window of cell c (0-based) of a (B, N, H, W)
\* ground-truth map, for the downsample factor ds.
NonZeroDepths(gt, ds, c) ==
    LET H == gt.shape[3]
        W == gt.shape[4]
        h == H \div ds
        w == W \div ds
    IN  { gt.flat[(c \div (h * w)) * H * W + (((c \div w) % h) * ds + a) * W
                  + (c % w) * ds + b + 1] : a \in 0..(ds - 1), b \in 0..(ds - 1) } \ {0}

\* The least element of a non-empty set of integers.
Least(S) == CHOOSE v \in S : \A u \in S : v <= u

\* The bin coordinate (depth - (lower - interval)) / interval of the least
\* non-zero depth of cell c, as numerator and denominator; the cell has none
\* when it holds no LiDAR return.
HasReturn(gt, ds, c) == NonZeroDepths(gt, ds, c) # {}
BinNum(cfg, gt, c) ==
    Least(NonZeroDepths(gt, cfg.downsample, c)) - (cfg.depth[1] - cfg.depth[3])
BinCount(cfg) == ArangeLen(cfg.depth[1], cfg.depth[2], cfg.depth[3])

\* C13: get_depth_loss on an input without any foreground cell returns a
\* defined value that is not NaN, namely zero.
C13_NoForegroundLossDefined ==
    (call.made /\ call.op = "get_depth_loss"
        /\ \A i \in 1..Len(call.gt_depth.flat) : ~FLess(Zero, call.gt_depth.flat[i])) =>
        /\ call.ret.kind = "ok"
        /\ ~call.ret.flat[1].nan
        /\ call.ret.flat[1] = Zero

\* C15: with for_uncertainty and linear spacing, the value of a cell is the
\* bin coordinate of the least non-zero depth of its window divided by D; a
\* window of zeros, or one whose bin coordinate is outside [0, D), gives
\* exactly 0; and every value lies in [0, 1).
C15_NormalizedGroundTruth ==
    (call.made /\ call.op = "get_downsampled_gt_depth" /\ call.for_uncertainty) =>
        /\ call.ret.kind = "ok"
        /\ \A c \in 0..(Len(call.ret.flat) - 1) :
               LET v == call.ret.flat[c + 1]
                   D == BinCount(call.cfg)
                   num == BinNum(call.cfg, call.gt_depths, c)
               IN  /\ ~v.nan /\ ~FLess(v, Zero) /\ FLess(v, FInt(1))
                   /\ v = IF /\ HasReturn(call.gt_depths, call.cfg.downsample, c)
                             /\ 0 <= num
                             /\ num < D * call.cfg.depth[3]
                          THEN FRat(num, call.cfg.depth[3] * D)
                          ELSE Zero

\* A cell of C15 whose window mixes zeros with LiDAR returns and whose value
\* is positive, beside a cell without any return.
C15_Witness ==
    /\ call.made /\ call.op = "get_downsampled_gt_depth" /\ call.for_uncertainty
    /\ call.cfg.downsample = 2
    /\ call.gt_depths.flat = MkLabels(2, <<3, 0, 1, 0>>, <<0, 0, 0, 0>>).flat
    /\ FLess(Zero, call.ret.flat[1])
    /\ call.ret.flat[2] = Zero

\* The predictions with those of the background cells replaced by v.
Blanked(preds, gt_depth, v) ==
    [depth |-> [i \in 1..Len(preds.depth) |->
                   IF FLess(Zero, gt_depth[i]) THEN preds.depth[i] ELSE v],
     logvar |-> [i \in 1..Len(preds.logvar) |->
                   IF FLess(Zero, gt_depth[i]) THEN preds.logvar[i] ELSE v]]

\* The ground-truth map and the predictions of cell c (0-based) alone.
CellLabels(gt, ds, c) ==
    LET H == gt.shape[3]
        W == gt.shape[4]
        h == H \div ds
        w == W \div ds
    IN  [shape |-> <<1, 1, ds, ds>>,
         flat |-> [k \in 1..(ds * ds) |->
                     gt.flat[(c \div (h * w)) * H * W
                             + (((c \div w) % h) * ds + (k - 1) \div ds) * W
                             + (c % w) * ds + ((k - 1) % ds) + 1]]]
CellPreds(preds, c) == [depth |-> <<preds.depth[c + 1]>>, logvar |-> <<preds.logvar[c + 1]>>]

\* The foreground cells (0-based) of the last get_depth_loss call.
Foreground ==
    { c \in 0..(Len(call.gt_depth.flat) - 1) : FLess(Zero, call.gt_depth.flat[c + 1]) }

\* C16: the loss depends only on the predictions at the cells whose
\* downsampled ground truth is positive: replacing the predictions at the
\* background cells by other values (0, or NaN) leaves it unchanged; and the
\* mean is over the foreground cells only: with one foreground cell the
\* loss is the loss of that cell alone.
C16_BackgroundExcluded ==
    (call.made /\ call.op = "get_depth_loss") =>
        /\ call.ret.kind = "ok"
        /\ \A v \in {Zero, NaN} :
               call.ret = get_depth_loss(call.cfg, call.depth_labels,
                                         Blanked(call.depth_preds, call.gt_depth.flat, v))
        /\ \A c \in Foreground :
               Foreground = {c} =>
                   call.ret = get_depth_loss(call.cfg,
                                  CellLabels(call.depth_labels, call.cfg.downsample, c),
                                  CellPreds(call.depth_preds, c))

\* A loss over one foreground cell beside a background cell whose
\* predictions are not zero.
C16_Witness ==
    /\ call.made /\ call.op = "get_depth_loss"
    /\ Foreground = {0}
    /\ call.depth_preds.depth[2] # Zero
    /\ call.depth_preds.logvar[2] # Zero
    /\ call.ret.kind = "ok"
    /\ ~call.ret.flat[1].nan
    /\ call.ret.flat[1] # Zero

\* C19: without for_uncertainty the result is a one-hot encoding over the D
\* depth bins: a cell whose least non-zero depth has the bin index k in
\* [1, D) has exactly one 1 in its row, in the column of class k, and a
\* cell without a return or with a bin coordinate outside [0, D) has an
\* all-zero row.
C19_OneHot ==
    (call.made /\ call.op = "get_downsampled_gt_depth" /\ ~call.for_uncertainty) =>
        /\ call.ret.kind = "ok"
        /\ \A c \in 0..(call.ret.shape[1] - 1) :
               LET D == BinCount(call.cfg)
                   row == [k \in 1..D |-> call.ret.flat[c * D + k]]
                   num == BinNum(call.cfg, call.gt_depths, c)
                   returned == HasReturn(call.gt_depths, call.cfg.downsample, c)
               IN  /\ (returned /\ call.cfg.depth[3] <= num /\ num < D * call.cfg.depth[3]) =>
                           \A k \in 1..D :
                               row[k] = IF k = num \div call.cfg.depth[3] THEN FInt(1) ELSE Zero
                   /\ (~returned \/ num < 0 \/ num >= D * call.cfg.depth[3]) =>
                           \A k \in 1..D : row[k] = Zero


----------------------------------------------------------------------------
(* 9. Stereo depth: DepthNet.gen_grid and DepthNet.calculate_cost_volumn *)

\* torch.floor of a float, as an integer.
FFloor(a) == IF a.e >= 0 THEN a.m * Pow2(a.e) ELSE a.m \div Pow2(-a.e)

\* tensor.abs()
FAbs(a) == IF a.m < 0 THEN FNeg(a) ELSE a

\* The channels processed per step of calculate_cost_volumn.
group_size == 4

\* t[:, lo:hi, ...] of a (BN, C, H, W) tensor (0-based channels lo..hi-1).
ChannelSlice(t, lo, hi) ==
    LET C == t.shape[2]
        HW == t.shape[3] * t.shape[4]
        n == hi - lo
    IN  [shape |-> <<t.shape[1], n, t.shape[3], t.shape[4]>>,
         flat |-> Force([j \in 1..(t.shape[1] * n * HW) |->
                     t.flat[((j - 1) \div (n * HW)) * C * HW + lo * HW
                            + ((j - 1) % (n * HW)) + 1]])]

\* gen_grid up to line 600: the frustum point i (0-based over (bn, d, h, w))
\* in the frame of the previous camera.
prev_cam_point(metas, D, H, W, i) ==
    LET DHW == D * H * W
        bn == (i \div DHW) + 1
        k2s == Concat(metas.k2s_sensor)[bn]
        intrins == Concat(metas.intrins)[bn]
        p1 == VecSub(metas.frustum.pts[(i % DHW) + 1], Concat(metas.post_trans)[bn])
        p2 == MatVec(Inverse(Concat(metas.post_rots)[bn]), p1)
        p3 == <<p2[1] * p2[3], p2[2] * p2[3], p2[3]>>
        combine == MatMul(Rot(k2s), Inverse(intrins))
    IN  VecAdd(MatVec(combine, p3), Trn(k2s))

\* neg_mask = points[..., 2, 0] < 1e-3
neg_mask(metas, D, H, W, i) ==
    FLess(FInt(prev_cam_point(metas, D, H, W, i)[3]), FRat(1, 1000))

\* gen_grid, lines 602-610: the normalised image coordinate (px, py) of the
\* point in the previous image.
projected(metas, D, H, W, hi, wi, i) ==
    LET bn == (i \div (D * H * W)) + 1
        p == MatVec(Concat(metas.intrins)[bn], prev_cam_point(metas, D, H, W, i))
        qx == FDiv(FInt(p[1]), FInt(p[3]))
        qy == FDiv(FInt(p[2]), FInt(p[3]))
        R == Concat(metas.post_rots)[bn]
        t == Concat(metas.post_trans)[bn]
        rx == FAdd(FAdd(FMul(FInt(R[1][1]), qx), FMul(FInt(R[1][2]), qy)), FInt(t[1]))
        ry == FAdd(FAdd(FMul(FInt(R[2][1]), qx), FMul(FInt(R[2][2]), qy)), FInt(t[2]))
    IN  [x |-> FAdd(FMul(FDiv(rx, FInt(wi - 1)), FInt(2)), FInt(-1)),
         y |-> FAdd(FMul(FDiv(ry, FInt(hi - 1)), FInt(2)), FInt(-1))]

\* gen_grid(metas, B, N, D, H, W, hi, wi): the (B*N, D*H, W, 2) sampling grid,
\* kept as the row-major sequence of the (x, y) pairs.
gen_grid(metas, B, N, D, H, W, hi, wi) ==
    [shape |-> <<B * N, D * H, W>>,
     flat |-> Force([j \in 1..(B * N * D * H * W) |->
                 IF neg_mask(metas, D, H, W, j - 1)
                 THEN [x |-> FInt(-2), y |-> FInt(-2)]
                 ELSE projected(metas, D, H, W, hi, wi, j - 1)])]

\* F.grid_sample(input, grid, align_corners=True, padding_mode='zeros'), with
\* the default bilinear mode: input (BN, C, H, W), grid (BN, Ho, Wo, 2),
\* output (BN, C, Ho, Wo).  A corner outside the input contributes zero.
grid_sample(input, grid) ==
    LET C == input.shape[2]
        H == input.shape[3]
        W == input.shape[4]
        HoWo == grid.shape[2] * grid.shape[3]
        sample(j) ==
            LET n == j \div (C * HoWo)
                ch == (j \div HoWo) % C
                g == grid.flat[n * HoWo + (j % HoWo) + 1]
                ix == FMul(FDiv(FAdd(g.x, FInt(1)), FInt(2)), FInt(W - 1))
                iy == FMul(FDiv(FAdd(g.y, FInt(1)), FInt(2)), FInt(H - 1))
                x0 == FFloor(ix)
                y0 == FFloor(iy)
                wx(x) == IF x = x0 THEN FAdd(FInt(x0 + 1), FNeg(ix))
                         ELSE FAdd(ix, FNeg(FInt(x0)))
                wy(y) == IF y = y0 THEN FAdd(FInt(y0 + 1), FNeg(iy))
                         ELSE FAdd(iy, FNeg(FInt(y0)))
                corner(x, y) ==
                    IF x >= 0 /\ x < W /\ y >= 0 /\ y < H
                    THEN FMul(input.flat[(n * C + ch) * H * W + y * W + x + 1],
                              FMul(wx(x), wy(y)))
                    ELSE Zero
            IN  FAdd(FAdd(corner(x0, y0), corner(x0 + 1, y0)),
                     FAdd(corner(x0, y0 + 1), corner(x0 + 1, y0 + 1)))
    IN  [shape |-> <<input.shape[1], C, grid.shape[2], grid.shape[3]>>,
         flat |-> Force([j \in 1..(input.shape[1] * C * HoWo) |-> sample(j - 1)])]

\* The largest element of a non-empty sequence of floats.
FMax(s) == CHOOSE v \in {s[k] : k \in 1..Len(s)} : \A k \in 1..Len(s) : ~FLess(v, s[k])

\* tensor.softmax(dim=1) of a (BN, D, H, W) tensor kept as its flat sequence.
softmax_dim1(flat, D, HW) ==
    LET column(j) == Force([d \in 1..D |->
                         flat[((j - 1) \div (D * HW)) * D * HW + (d - 1) * HW
                              + ((j - 1) % HW) + 1]])
    IN  Bind(Force([j \in 1..Len(flat) |->
                 FExp(FAdd(flat[j], FNeg(FMax(column(j)))))]), LAMBDA e :
        Force([j \in 1..Len(flat) |->
            FDiv(e[j], FSum(Force([d \in 1..D |->
                     e[((j - 1) \div (D * HW)) * D * HW + (d - 1) * HW
                       + ((j - 1) % HW) + 1]]), 1))]))

\* calculate_cost_volumn(metas) of a DepthNet with self.bias = bias: what it
\* returns or raises, and the sampling grid, the warped previous features of
\* every group, the summed cost and the cost after the bias.
calculate_cost_volumn(bias, metas) ==
    LET prev0 == metas.cv_feat_list[1]
        curr0 == metas.cv_feat_list[2]
        c == curr0.shape[2]
        hf == curr0.shape[3]
        wf == curr0.shape[4]
        hi == hf * 4
        wi == wf * 4
        B == LeadShape(metas.post_trans)[1]
        N == LeadShape(metas.post_trans)[2]
        D == metas.frustum.D
        H == metas.frustum.H
        W == metas.frustum.W
        HW == H * W
        DHW == D * H * W
        failed(what) == [kind |-> "raise", error |-> what, shape |-> <<>>, flat |-> <<>>,
                         grid |-> <<>>, warped |-> <<>>, sum |-> <<>>, cost |-> <<>>]
    IN  IF Prod(prev0.shape) % (B * N * HW) # 0 \/ Prod(curr0.shape) % (B * N * HW) # 0
        THEN failed("RuntimeError")
        ELSE
        LET prev == TView(prev0, <<B * N, Prod(prev0.shape) \div (B * N * HW), H, W>>)
            curr == TView(curr0, <<B * N, Prod(curr0.shape) \div (B * N * HW), H, W>>)
            C == curr.shape[2]
            groups == C \div group_size
        IN  \* without a group, wrap_prev is unbound and cost_volumn is the int 0
            IF groups = 0
            THEN failed(IF bias.m # 0 THEN "UnboundLocalError" ELSE "AttributeError")
            \* fewer previous than current channels: the subtraction cannot broadcast
            ELSE IF prev.shape[2] < groups * group_size
            THEN failed("RuntimeError")
            ELSE
            Bind(gen_grid(metas, B, N, D, H, W, hi, wi), LAMBDA grid :
            Bind(Force([fid \in 1..groups |->
                     grid_sample(ChannelSlice(prev, (fid - 1) * group_size,
                                              fid * group_size), grid).flat]),
                 LAMBDA warped :
            Bind(Force([j \in 1..(B * N * DHW) |->
                     FSum(Force([k \in 1..(groups * group_size) |->
                         LET fid == ((k - 1) \div group_size) + 1
                             ch == (k - 1) % group_size
                             bn == (j - 1) \div DHW
                         IN  FAbs(FAdd(curr.flat[(bn * C + (k - 1)) * HW
                                                 + ((j - 1) % HW) + 1],
                                       FNeg(warped[fid][(bn * group_size + ch) * DHW
                                                        + ((j - 1) % DHW) + 1])))]), 1)]),
                 LAMBDA sum :
            Bind(Force([j \in 1..(B * N * DHW) |->
                     IF bias.m # 0
                        /\ warped[groups][((j - 1) \div DHW) * group_size * DHW
                                          + ((j - 1) % DHW) + 1].m = 0
                     THEN FAdd(sum[j], bias) ELSE sum[j]]), LAMBDA cost :
            [kind |-> "ok", error |-> "", shape |-> <<B * N, D, H, W>>,
             flat |-> softmax_dim1(Force([j \in 1..Len(cost) |-> FNeg(cost[j])]), D, HW),
             grid |-> grid.flat, warped |-> warped, sum |-> sum, cost |-> cost]))))


\* The (H, W) sizes of the stereo feature maps.
FeatSizes == {<<1, 2>>, <<1, 4>>}

\* The cv_frustum of a stereo instance whose feature map is size: the input
\* image is four times as large (calculate_cost_volumn takes hi, wi = 4 * hf,
\* 4 * wf).
cv_frustum(size) == create_frustum(depth_cfg, <<4 * size[1], 4 * size[2]>>, 4)

\* The transforms from the current to the previous camera: none, one and two
\* units backwards along the optical axis (depth 1, then depths 1 and 2 come
\* to lie behind the previous camera), and a shift to the side.
PoseSame == Sensor2Ego(I3, <<0, 0, 0>>)
PoseBack1 == Sensor2Ego(I3, <<0, 0, -1>>)
PoseBack2 == Sensor2Ego(I3, <<0, 0, -2>>)
PoseSide == Sensor2Ego(I3, <<7, 0, 0>>)
StereoRigs ==
    {<<PoseSame>>, <<PoseBack1>>, <<PoseBack2>>, <<PoseSide>>,
     <<PoseBack1, PoseSame>>, <<PoseSide, PoseBack2>>}

\* The channel counts of the stereo features and the values of self.bias.
ChannelCounts == {2, 4, 6, 8}
Biases == {Zero, FRat(1, 2)}

\* A (BN, c, H, W) feature map: "ones" is 1 everywhere, "ramp" varies with
\* channel and column, "gap" is zero in the first channel of every group of
\* four, "head" is zero from the fifth channel on, "dark" is zero everywhere.
MkFeat(BN, c, size, pattern) ==
    [shape |-> <<BN, c, size[1], size[2]>>,
     flat |-> Force([j \in 1..(BN * c * size[1] * size[2]) |->
                 LET ch == ((j - 1) \div (size[1] * size[2])) % c
                     w == (j - 1) % size[2]
                 IN  FInt(IF pattern = "ones" THEN 1
                          ELSE IF pattern = "ramp" THEN 1 + ((ch + w) % 3)
                          ELSE IF pattern = "gap" THEN (IF ch % 4 = 0 THEN 0 ELSE 2)
                          ELSE IF pattern = "head" THEN (IF ch < 4 THEN 3 ELSE 0)
                          ELSE 0)])]

\* stereo_metas of one batch element with the cameras of rig.
MkMetas(rig, size, c, prev, curr) ==
    [frustum |-> cv_frustum(size),
     post_trans |-> <<Force([n \in 1..Len(rig) |-> <<0, 0, 0>>])>>,
     post_rots |-> <<Force([n \in 1..Len(rig) |-> I3])>>,
     k2s_sensor |-> <<rig>>,
     intrins |-> <<Force([n \in 1..Len(rig) |-> Intrin(0)])>>,
     cv_feat_list |-> <<MkFeat(Len(rig), c, size, prev), MkFeat(Len(rig), c, size, curr)>>]

CostVolumnInputs ==
    { [made |-> FALSE, op |-> "calculate_cost_volumn", bias |-> bias,
       metas |-> MkMetas(rig, size, c, prev, curr)] :
          bias \in Biases, rig \in StereoRigs, size \in FeatSizes, c \in ChannelCounts,
          prev \in {"ones", "gap", "head", "dark"}, curr \in {"ones", "ramp"} }

InitStereo == Constructed(CostVolumnInputs)

CalculateCostVolumn ==
    /\ ~call.made
    /\ call.op = "calculate_cost_volumn"
    /\ call' = [call EXCEPT !.made = TRUE] @@
               [ret |-> calculate_cost_volumn(call.bias, call.metas)]
    /\ UNCHANGED Attributes

NextStereo == CalculateCostVolumn

SpecStereo == InitStereo /\ [][NextStereo]_vars

\* The last call was calculate_cost_volumn and returned.
CostReturned == call.made /\ call.op = "calculate_cost_volumn" /\ call.ret.kind = "ok"

\* The sizes (D, H, W) of the last call's frustum and its number of cameras.
FrD == call.metas.frustum.D
FrH == call.metas.frustum.H
FrW == call.metas.frustum.W
Cameras == Len(call.metas.k2s_sensor[1])

\* C17: a frustum sample whose z in the previous camera's frame is below 1e-3
\* has the sampling coordinate (-2, -2) and the previous features warped at
\* it are zero in every channel; a sample with z >= 1e-3 has its projected
\* coordinate.
C17_BehindCameraIsZero ==
    CostReturned =>
        \A i \in 0..(Cameras * FrD * FrH * FrW - 1) :
            IF neg_mask(call.metas, FrD, FrH, FrW, i)
            THEN /\ call.ret.grid[i + 1] = [x |-> FInt(-2), y |-> FInt(-2)]
                 /\ \A fid \in 1..Len(call.ret.warped) : \A ch \in 0..(group_size - 1) :
                        call.ret.warped[fid][((i \div (FrD * FrH * FrW)) * group_size + ch)
                                                 * FrD * FrH * FrW
                                             + (i % (FrD * FrH * FrW)) + 1] = Zero
            ELSE call.ret.grid[i + 1] =
                     projected(call.metas, FrD, FrH, FrW, 4 * FrH, 4 * FrW, i)

\* The previous features of the last call warped in all their channels.
WarpedAll ==
    grid_sample(call.metas.cv_feat_list[1],
                [shape |-> <<Cameras, FrD * FrH, FrW>>, flat |-> call.ret.grid])

\* C18: with a non-zero bias calculate_cost_volumn returns for every channel
\* count, and the cost of a (depth, row, col) position is the summed cost plus
\* the bias if the warped previous features are zero there in every channel,
\* and the summed cost alone otherwise.
C18_BiasWhereWarpedIsZero ==
    (call.made /\ call.op = "calculate_cost_volumn" /\ call.bias # Zero) =>
        /\ call.ret.kind = "ok"
        /\ Bind(WarpedAll, LAMBDA all :
               \A i \in 0..(Cameras * FrD * FrH * FrW - 1) :
                   LET DHW == FrD * FrH * FrW
                       dark == \A ch \in 0..(all.shape[2] - 1) :
                                   all.flat[((i \div DHW) * all.shape[2] + ch) * DHW
                                            + (i % DHW) + 1] = Zero
                   IN  call.ret.cost[i + 1] =
                           IF dark THEN FAdd(call.ret.sum[i + 1], call.bias)
                           ELSE call.ret.sum[i + 1])


----------------------------------------------------------------------------
(* 10. The bin indexing of the frustum, the ground truth and the distribution *)

\* The depth of the frustum's bin k (0-based) for the depth range of cfg.
FrustumDepth(cfg, k) ==
    LET fr == create_frustum(cfg.depth, input_size, downsample)
    IN  fr.pts[k * fr.H * fr.W + 1][3]

\* The bin weights generate_depth_distribution gives one pixel with the mean
\* depth_mean and a log-variance of 0, for D bins.
WeightsAt(depth_mean, D) ==
    BinWeights(generate_depth_distribution([shape |-> <<1, 1, 1>>, flat |-> <<depth_mean>>],
                                           [shape |-> <<1, 1, 1>>, flat |-> <<FInt(0)>>],
                                           D), 0)

\* C22: a cell whose ground-truth depth is the depth of the frustum's bin k
\* has a normalised value above zero, and the distribution of a mean equal to
\* that value has its largest weight at bin k.
C22_SameBinIndexing ==
    (call.made /\ call.op = "get_downsampled_gt_depth" /\ call.for_uncertainty
     /\ call.ret.kind = "ok") =>
        \A c \in 0..(Len(call.ret.flat) - 1) : \A k \in 0..(BinCount(call.cfg) - 1) :
            (/\ HasReturn(call.gt_depths, call.cfg.downsample, c)
             /\ Least(NonZeroDepths(call.gt_depths, call.cfg.downsample, c))
                    = FrustumDepth(call.cfg, k)) =>
                /\ FLess(Zero, call.ret.flat[c + 1])
                /\ Bind(WeightsAt(call.ret.flat[c + 1], BinCount(call.cfg)), LAMBDA w :
                       \A j \in 1..Len(w) : j # k + 1 => FLess(w[j], w[k + 1]))

============================================================================
